---- MODULE Spec2Model ----
(***************************************************************************)
(* A model of src-tauri/src/util.rs: the debug reader/writer lock          *)
(* RwLockDebug (an inner RwLock, a shared backtrace record behind its own  *)
(* RwLock, and one watchdog thread per read()/write() call) and the        *)
(* drop-callback wrapper ThreadWatchdog.                                   *)
(*                                                                         *)
(* Every read()/write() call is one attempt, made by its own caller        *)
(* thread; attempts are numbered in the order the calls begin.  Time is a  *)
(* global clock counting whole seconds (util.rs compares as_secs()); it    *)
(* advances by the action Tick, interleaved freely with the threads'       *)
(* steps, as preemptive scheduling allows.                                 *)
(***************************************************************************)
EXTENDS Integers, Sequences, FiniteSets, TLC

\* ---------------------------------------------------------------- bounds
MaxAttempts == 2
MaxTime == 4
MaxVal == 2
MaxGuards == 3
MaxStampSecs == 1
MaxClockSecs == 5

\* util.rs:195  started.elapsed().as_secs() >= 3 (and util.rs:209)
Deadline == 3

Attempts == 1..MaxAttempts
\* the attempts of the contention runs: one holder and MaxAttempts calls
\* blocked behind it
Contenders == 1..(MaxAttempts + 1)
Values == 0..MaxVal
Kinds == {"read", "write"}

\* ------------------------------------------------------------ RwLockDebug
VARIABLES
    now,        \* the monotonic clock (std::time::Instant::now()), in seconds
    value,      \* the T inside inner: RwLock<T>
    writer,     \* inner: the attempt holding the write guard, 0 if none
    readers,    \* inner: the attempts holding read guards
    rec,        \* backtrace: Option<(Backtrace, Instant)>
    recW,       \* backtrace's RwLock: the thread holding it for writing
    recR,       \* backtrace's RwLock: the watchdogs holding it for reading
    kind,       \* per attempt: read() or write()
    apc,        \* per attempt: the calling thread's position in read()/write()
    success,    \* per attempt: the Arc<AtomicBool> of watchdog()
    started,    \* per attempt: `started` of watchdog()
    cap,        \* per attempt: the Some((Backtrace::new(), Instant::now())) of backtrace()
    seen,       \* per attempt: the value read through the returned guard
    wpc,        \* per attempt: the watchdog thread's position
    viaTake,    \* per attempt: the watchdog went through try_write()/take()
    out,        \* per attempt: the lines the watchdog printed
    setEarly,   \* history: the flag was stored less than 3 s after `started`
    blockedLong,\* history: inner.read()/write() returned more than 3 s after `started`
    lastStored, \* history: the attempt whose backtrace() wrote the record last, 0 if none
    takenBy     \* history: the watchdog whose take() emptied the record since, 0 if none

\* ---------------------------------------------------------- ThreadWatchdog
VARIABLES
    twState,    \* per ThreadWatchdog value: "none", "live" or "dropped"
    twExit,     \* per ThreadWatchdog value: the way its scope was left
    twCalls     \* per ThreadWatchdog value: how often the callback has run

lockVars == <<now, value, writer, readers, rec, recW, recR, kind, apc, success,
              started, cap, seen, wpc, viaTake, out, setEarly, blockedLong,
              lastStored, takenBy>>
twVars == <<twState, twExit, twCalls>>

\* ------------------------------------------- the elapsed figure of a report
\* (util.rs:208-220, with the clock in whole seconds and nanoseconds)
VARIABLES
    timestamp,  \* the Instant taken out of the record
    clock,      \* Instant::now() when elapsed() is called
    printed     \* the text put into "Locked {} before by:", a number and a unit

elapsedVars == <<timestamp, clock, printed>>
vars == <<lockVars, twVars, elapsedVars>>

\* ------------------------------------------------------------------ data
NoStack == <<"none", 0>>
\* the Backtrace::new() of read()/write(), handed to watchdog() (util.rs:233, 243)
AttemptStack(a) == <<"attempt", a>>
\* the Backtrace::new() of backtrace(), taken after the acquisition (util.rs:183)
HolderStack(a) == <<"holder", a>>

None == [some |-> FALSE, stack |-> NoStack, at |-> 0]
Some(s, t) == [some |-> TRUE, stack |-> s, at |-> t]

\* nothing read yet
NoValue == 0 - 1

NoThread == <<"none", 0>>
Caller(a) == <<"caller", a>>
Watchdog(a) == <<"watchdog", a>>

Line(tag, s, n) == [tag |-> tag, stack |-> s, n |-> n]

\* Duration::as_secs() of a duration given in seconds
AsSecs(d) == d

\* Instant::elapsed(): the time since `t`, zero when `t` is not yet reached
Elapsed(t) == IF now >= t THEN now - t ELSE 0


\* ------------------------------------------------------------------ Init
\* (mutant) the record starts out holding a stale pair
NewRecordStale == Some(NoStack, 0)

\* RwLockDebug::new: backtrace: Arc::new(RwLock::new(None))
NewRecord == None

InitLock ==
    /\ now = 0
    /\ value = 0
    /\ writer = 0
    /\ readers = {}
    /\ rec = NewRecord
    /\ recW = NoThread
    /\ recR = {}
    /\ kind = [a \in Contenders |-> "none"]
    /\ apc = [a \in Contenders |-> "idle"]
    /\ success = [a \in Contenders |-> FALSE]
    /\ started = [a \in Contenders |-> 0]
    /\ cap = [a \in Contenders |-> None]
    /\ seen = [a \in Contenders |-> NoValue]
    /\ wpc = [a \in Contenders |-> "none"]
    /\ viaTake = [a \in Contenders |-> FALSE]
    /\ out = [a \in Contenders |-> <<>>]
    /\ setEarly = [a \in Contenders |-> FALSE]
    /\ blockedLong = [a \in Contenders |-> FALSE]
    /\ lastStored = 0
    /\ takenBy = 0

Guards == 1..MaxGuards
ExitPaths == {"normal", "early_return", "unwind"}

InitTW ==
    /\ twState = [g \in Guards |-> "none"]
    /\ twExit = [g \in Guards |-> "none"]
    /\ twCalls = [g \in Guards |-> 0]

\* std::time::Duration and Instant: whole seconds and nanoseconds below a second
NanosPerSec == 1000000000
Time(s, n) == [secs |-> s, nanos |-> n]
NotPrinted == [num |-> <<0, 0>>, unit |-> "none"]

InitElapsed ==
    /\ timestamp = Time(0, 0)
    /\ clock = Time(0, 0)
    /\ printed = NotPrinted

Init == InitLock /\ InitTW /\ InitElapsed

\* ------------------------------------------------- the calling thread
\* (mutant) a writer that does not wait for the readers
CanWriteOverReaders == writer = 0

\* parking_lot RwLock::write(): the lock is free
CanWrite == writer = 0 /\ readers = {}
\* (mutant) a reader that does not wait for the writer
CanReadOverWriter == TRUE

\* parking_lot RwLock::read(): no writer holds the lock
CanRead == writer = 0
CanAcquire(k) == IF k = "write" THEN CanWrite ELSE CanRead

\* the attempts whose caller thread is inside inner.read()/inner.write()
Waiters == {a \in Attempts : apc[a] = "acquire"}
\* the attempts that own a guard of the inner lock
Holders == readers \cup (IF writer = 0 THEN {} ELSE {writer})

\* read()/write(), first line: Backtrace::new() and watchdog(): a fresh flag,
\* `started`, and the spawned thread.  Attempts are numbered in call order, the
\* clock is read from the first call on, and a call begins only while the
\* clock can still reach its deadline.
Call(a, k) ==
    /\ apc[a] = "idle"
    /\ IF a = 1 THEN now = 0 ELSE apc[a - 1] # "idle"
    /\ now + Deadline <= MaxTime
    /\ kind' = [kind EXCEPT ![a] = k]
    /\ success' = [success EXCEPT ![a] = FALSE]
    /\ started' = [started EXCEPT ![a] = now]
    /\ wpc' = [wpc EXCEPT ![a] = "load"]
    /\ apc' = [apc EXCEPT ![a] = "acquire"]
    /\ UNCHANGED <<twVars, elapsedVars>>
    /\ UNCHANGED <<now, value, writer, readers, rec, recW, recR, cap, seen,
                   viaTake, out, setEarly, blockedLong, lastStored, takenBy>>

\* let lock = self.inner.read() / self.inner.write(): blocks until it can be taken
InnerAcquire(a) ==
    /\ apc[a] = "acquire"
    /\ CanAcquire(kind[a])
    /\ IF kind[a] = "write"
         THEN writer' = a /\ readers' = readers
         ELSE readers' = readers \cup {a} /\ writer' = writer
    /\ blockedLong' = [blockedLong EXCEPT ![a] = (now - started[a] > Deadline)]
    /\ apc' = [apc EXCEPT ![a] = "setflag"]
    /\ UNCHANGED <<twVars, elapsedVars>>
    /\ UNCHANGED <<now, value, rec, recW, recR, kind, success, started, cap,
                   seen, wpc, viaTake, out, setEarly, lastStored, takenBy>>

\* (mutant) one flag shared by all attempts of the lock
StoreFlagShared(a) ==
    /\ apc[a] = "setflag"
    /\ success' = [b \in DOMAIN success |-> TRUE]
    /\ setEarly' = [setEarly EXCEPT ![a] = (AsSecs(now - started[a]) < Deadline)]
    /\ apc' = [apc EXCEPT ![a] = "capture"]
    /\ UNCHANGED <<twVars, elapsedVars>>
    /\ UNCHANGED <<now, value, writer, readers, rec, recW, recR, kind, started,
                   cap, seen, wpc, viaTake, out, blockedLong, lastStored,
                   takenBy>>

\* (mutant) the call goes on to backtrace() without storing the flag
StoreFlagSkipped(a) ==
    /\ apc[a] = "setflag"
    /\ apc' = [apc EXCEPT ![a] = "capture"]
    /\ UNCHANGED <<twVars, elapsedVars>>
    /\ UNCHANGED <<now, value, writer, readers, rec, recW, recR, kind, started,
                   cap, seen, wpc, viaTake, out, blockedLong, lastStored,
                   takenBy, success, setEarly>>

\* success.store(true, Release)
StoreFlag(a) ==
    /\ apc[a] = "setflag"
    /\ success' = [success EXCEPT ![a] = TRUE]
    /\ setEarly' = [setEarly EXCEPT ![a] = (AsSecs(now - started[a]) < Deadline)]
    /\ apc' = [apc EXCEPT ![a] = "capture"]
    /\ UNCHANGED <<twVars, elapsedVars>>
    /\ UNCHANGED <<now, value, writer, readers, rec, recW, recR, kind, started,
                   cap, seen, wpc, viaTake, out, blockedLong, lastStored,
                   takenBy>>

\* (mutant) the stack captured when the attempt began is stored instead
CapturedAtStart(a) == Some(AttemptStack(a), started[a])

\* backtrace(): the value stored, Some((Backtrace::new(), Instant::now()))
Captured(a) == Some(HolderStack(a), now)

\* backtrace(): the right-hand side is evaluated first
Capture(a) ==
    /\ apc[a] = "capture"
    /\ cap' = [cap EXCEPT ![a] = Captured(a)]
    /\ apc' = [apc EXCEPT ![a] = "reclock"]
    /\ UNCHANGED <<twVars, elapsedVars>>
    /\ UNCHANGED <<now, value, writer, readers, rec, recW, recR, kind, success,
                   started, seen, wpc, viaTake, out, setEarly, blockedLong,
                   lastStored, takenBy>>

\* the record's RwLock can be taken for writing / for reading
RecCanWrite == recW = NoThread /\ recR = {}
RecCanRead == recW = NoThread

\* (mutant) the write guard is leaked: the record's lock stays held
RecWriteLeaked == recW

\* the record's RwLock after its write guard is dropped
RecWriteReleased == NoThread

\* backtrace(): self.backtrace.write(), blocking
RecWriteLock(a) ==
    /\ apc[a] = "reclock"
    /\ RecCanWrite
    /\ recW' = Caller(a)
    /\ apc' = [apc EXCEPT ![a] = "recstore"]
    /\ UNCHANGED <<twVars, elapsedVars>>
    /\ UNCHANGED <<now, value, writer, readers, rec, recR, kind, success,
                   started, cap, seen, wpc, viaTake, out, setEarly,
                   blockedLong, lastStored, takenBy>>

\* (mutant) backtrace() returns with the record's write guard still held
RecStoreKeepsGuard(a) ==
    /\ apc[a] = "recstore"
    /\ rec' = cap[a]
    /\ lastStored' = a
    /\ takenBy' = 0
    /\ cap' = [cap EXCEPT ![a] = None]
    /\ apc' = [apc EXCEPT ![a] = "holding"]
    /\ UNCHANGED <<twVars, elapsedVars>>
    /\ UNCHANGED <<now, value, writer, readers, recR, kind, success, started, seen,
                   wpc, viaTake, out, setEarly, blockedLong, recW>>

\* backtrace(): the assignment through the guard and the guard's drop at the
\* end of the statement; read()/write() then return `lock`
RecStore(a) ==
    /\ apc[a] = "recstore"
    /\ rec' = cap[a]
    /\ recW' = RecWriteReleased
    /\ lastStored' = a
    /\ takenBy' = 0
    /\ cap' = [cap EXCEPT ![a] = None]
    /\ apc' = [apc EXCEPT ![a] = "holding"]
    /\ UNCHANGED <<twVars, elapsedVars>>
    /\ UNCHANGED <<now, value, writer, readers, recR, kind, success, started, seen,
                   wpc, viaTake, out, setEarly, blockedLong>>

\* the caller reads through its guard (Deref)
ReadValue(a) ==
    /\ apc[a] = "holding"
    /\ seen[a] # value
    /\ seen' = [seen EXCEPT ![a] = value]
    /\ UNCHANGED <<twVars, elapsedVars>>
    /\ UNCHANGED <<now, value, writer, readers, rec, recW, recR, kind, apc,
                   success, started, cap, wpc, viaTake, out, setEarly,
                   blockedLong, lastStored, takenBy>>

\* the caller assigns through its RwLockWriteGuard (DerefMut)
SetValue(a, v) ==
    /\ apc[a] = "holding"
    /\ kind[a] = "write"
    /\ v = value + 1
    /\ value' = v
    /\ UNCHANGED <<twVars, elapsedVars>>
    /\ UNCHANGED <<now, writer, readers, rec, recW, recR, kind, apc, success,
                   started, cap, seen, wpc, viaTake, out, setEarly,
                   blockedLong, lastStored, takenBy>>

\* the caller drops its guard, and what it read through it is out of scope
DropGuard(a) ==
    /\ apc[a] = "holding"
    /\ IF kind[a] = "write"
         THEN writer' = 0 /\ readers' = readers
         ELSE readers' = readers \ {a} /\ writer' = writer
    /\ seen' = [seen EXCEPT ![a] = NoValue]
    /\ apc' = [apc EXCEPT ![a] = "released"]
    /\ UNCHANGED <<twVars, elapsedVars>>
    /\ UNCHANGED <<now, value, rec, recW, recR, kind, success, started, cap,
                   wpc, viaTake, out, setEarly, blockedLong, lastStored,
                   takenBy>>


\* ------------------------------------------------- the watchdog thread
\* success.load(Acquire): true ends the loop without output
Load(a) ==
    /\ wpc[a] = "load"
    /\ wpc' = [wpc EXCEPT ![a] = IF success[a] THEN "silent" ELSE "check"]
    /\ UNCHANGED <<twVars, elapsedVars>>
    /\ UNCHANGED <<now, value, writer, readers, rec, recW, recR, kind, apc,
                   success, started, cap, seen, viaTake, out, setEarly,
                   blockedLong, lastStored, takenBy>>

\* (mutant) the deadline test off by one second
TimedOutLate(a) == AsSecs(Elapsed(started[a])) > Deadline

\* started.elapsed().as_secs() >= 3
TimedOut(a) == AsSecs(Elapsed(started[a])) >= Deadline

\* println!("{:#?}", calling_backtrace)
InvokedBy(a) == AttemptStack(a)

\* the three lines printed before the record is looked at
Header(a) ==
    <<Line("POTENTIAL DEADLOCK", NoStack, 0),
      Line("Invoked by", NoStack, 0),
      Line("stack", InvokedBy(a), 0)>>

\* (mutant) a timed-out watchdog cancels the call it watches
CheckCancels(a) ==
    /\ wpc[a] = "check"
    /\ IF TimedOut(a)
         THEN /\ out' = [out EXCEPT ![a] = out[a] \o Header(a)]
              /\ apc' = [apc EXCEPT ![a] = IF apc[a] = "acquire" THEN "released" ELSE apc[a]]
              /\ IF RecCanWrite
                   THEN /\ recW' = Watchdog(a)
                        /\ wpc' = [wpc EXCEPT ![a] = "take"]
                   ELSE /\ recW' = recW
                        /\ wpc' = [wpc EXCEPT ![a] = "rdlock"]
         ELSE /\ out' = out
              /\ apc' = apc
              /\ recW' = recW
              /\ wpc' = [wpc EXCEPT ![a] = "load"]
    /\ UNCHANGED <<twVars, elapsedVars>>
    /\ UNCHANGED <<now, value, writer, readers, rec, recR, kind, success,
                   started, cap, seen, viaTake, setEarly, blockedLong,
                   lastStored, takenBy>>

\* (mutant) a timeout branch without try_write(): always the fallback read
CheckCopiesOnly(a) ==
    /\ wpc[a] = "check"
    /\ IF TimedOut(a)
         THEN /\ out' = [out EXCEPT ![a] = out[a] \o Header(a)]
              /\ wpc' = [wpc EXCEPT ![a] = "rdlock"]
         ELSE /\ out' = out
              /\ wpc' = [wpc EXCEPT ![a] = "load"]
    /\ UNCHANGED <<twVars, elapsedVars>>
    /\ UNCHANGED <<now, value, writer, readers, rec, recR, kind, apc, success,
                   started, cap, seen, viaTake, setEarly, blockedLong,
                   lastStored, takenBy, recW>>

\* else if started.elapsed().as_secs() >= 3: the three println! and
\* backtrace.try_write(), which is Some(guard) when the record's lock is free
\* and None otherwise; when the deadline has not passed the loop goes round.
\* (The printing reads and writes nothing shared, so it is one step with the
\* try_write() that follows it.)
Check(a) ==
    /\ wpc[a] = "check"
    /\ IF TimedOut(a)
         THEN /\ out' = [out EXCEPT ![a] = out[a] \o Header(a)]
              /\ IF RecCanWrite
                   THEN /\ recW' = Watchdog(a)
                        /\ wpc' = [wpc EXCEPT ![a] = "take"]
                   ELSE /\ recW' = recW
                        /\ wpc' = [wpc EXCEPT ![a] = "rdlock"]
         ELSE /\ out' = out
              /\ recW' = recW
              /\ wpc' = [wpc EXCEPT ![a] = "load"]
    /\ UNCHANGED <<twVars, elapsedVars>>
    /\ UNCHANGED <<now, value, writer, readers, rec, recR, kind, apc, success,
                   started, cap, seen, viaTake, setEarly, blockedLong,
                   lastStored, takenBy>>

\* (timestamp + Duration::from_secs(3)).elapsed()
HolderElapsed(g) == Elapsed(g.at + Deadline)

\* the outer match: None => "Locked by: UNKNOWN"; Some => the elapsed line and
\* the holder's stack
HolderLines(g) ==
    IF g.some
      THEN <<Line("Locked before by", NoStack, HolderElapsed(g)),
             Line("stack", g.stack, 0)>>
      ELSE <<Line("Locked by: UNKNOWN", NoStack, 0)>>

\* (mutant) the fallback read removes the record as well
AfterCloneRemoved == None

\* (mutant) take() that leaves the record in place
AfterTakeKept == rec

\* Option::take(): what is left in the record
AfterTake == None
\* (&*backtrace.read()).clone(): what is left in the record
AfterClone == rec

\* (mutant) the timeout branch without its `break`: the loop goes round again
TakeNoBreak(a) ==
    /\ wpc[a] = "take"
    /\ out' = [out EXCEPT ![a] = out[a] \o HolderLines(rec)]
    /\ rec' = AfterTake
    /\ recW' = RecWriteReleased
    /\ viaTake' = [viaTake EXCEPT ![a] = TRUE]
    /\ takenBy' = a
    /\ wpc' = [wpc EXCEPT ![a] = IF Len(out[a]) > 3 THEN "reported" ELSE "load"]
    /\ UNCHANGED <<twVars, elapsedVars>>
    /\ UNCHANGED <<now, value, writer, readers, recR, kind, apc, success,
                   started, cap, seen, setEarly, blockedLong, lastStored>>

\* (mutant) the watchdog thread ends without dropping its write guard
TakeKeepsGuard(a) ==
    /\ wpc[a] = "take"
    /\ out' = [out EXCEPT ![a] = out[a] \o HolderLines(rec)]
    /\ rec' = AfterTake
    /\ viaTake' = [viaTake EXCEPT ![a] = TRUE]
    /\ takenBy' = a
    /\ wpc' = [wpc EXCEPT ![a] = "reported"]
    /\ UNCHANGED <<twVars, elapsedVars>>
    /\ UNCHANGED <<now, value, writer, readers, recR, kind, apc, success,
                   started, cap, seen, setEarly, blockedLong, lastStored, recW>>

\* Some(mut backtrace_w) => backtrace_w.take(), the guard dropping at the arm's
\* end; then the outer match and its println!, and `return` or `break`: the
\* thread ends.  (What is printed depends on the taken value and the clock
\* alone, so it is one step with the take.)
Take(a) ==
    /\ wpc[a] = "take"
    /\ out' = [out EXCEPT ![a] = out[a] \o HolderLines(rec)]
    /\ rec' = AfterTake
    /\ recW' = RecWriteReleased
    /\ viaTake' = [viaTake EXCEPT ![a] = TRUE]
    /\ takenBy' = a
    /\ wpc' = [wpc EXCEPT ![a] = "reported"]
    /\ UNCHANGED <<twVars, elapsedVars>>
    /\ UNCHANGED <<now, value, writer, readers, recR, kind, apc, success,
                   started, cap, seen, setEarly, blockedLong, lastStored>>

\* None => backtrace.read(), blocking while a writer holds the record's lock
ReadLock(a) ==
    /\ wpc[a] = "rdlock"
    /\ RecCanRead
    /\ recR' = recR \cup {a}
    /\ wpc' = [wpc EXCEPT ![a] = "clone"]
    /\ UNCHANGED <<twVars, elapsedVars>>
    /\ UNCHANGED <<now, value, writer, readers, rec, recW, kind, apc, success,
                   started, cap, seen, viaTake, out, setEarly, blockedLong,
                   lastStored, takenBy>>

\* (mutant) the fallback branch without `break`/`return`: the loop goes round
CloneNoBreak(a) ==
    /\ wpc[a] = "clone"
    /\ out' = [out EXCEPT ![a] = out[a] \o HolderLines(rec)]
    /\ rec' = AfterClone
    /\ recR' = recR \ {a}
    /\ wpc' = [wpc EXCEPT ![a] = IF Len(out[a]) > 3 THEN "reported" ELSE "load"]
    /\ UNCHANGED <<twVars, elapsedVars>>
    /\ UNCHANGED <<now, value, writer, readers, recW, kind, apc, success,
                   started, cap, seen, viaTake, setEarly, blockedLong,
                   lastStored, takenBy>>

\* .clone(), the read guard dropping at the arm's end; then the outer match
\* and its println!, and `return` or `break`: the thread ends
Clone(a) ==
    /\ wpc[a] = "clone"
    /\ out' = [out EXCEPT ![a] = out[a] \o HolderLines(rec)]
    /\ rec' = AfterClone
    /\ recR' = recR \ {a}
    /\ wpc' = [wpc EXCEPT ![a] = "reported"]
    /\ UNCHANGED <<twVars, elapsedVars>>
    /\ UNCHANGED <<now, value, writer, readers, recW, kind, apc, success,
                   started, cap, seen, viaTake, setEarly, blockedLong,
                   lastStored, takenBy>>

\* ----------------------------------------------------------------- time
Tick ==
    /\ now < MaxTime
    /\ now' = now + 1
    /\ UNCHANGED <<twVars, elapsedVars>>
    /\ UNCHANGED <<value, writer, readers, rec, recW, recR, kind, apc, success,
                   started, cap, seen, wpc, viaTake, out, setEarly,
                   blockedLong, lastStored, takenBy>>

\* ------------------------------------------------------------- the lock
CallerStep(a) ==
    \/ InnerAcquire(a)
    \/ StoreFlag(a)
    \/ Capture(a)
    \/ RecWriteLock(a)
    \/ RecStore(a)

WatchdogStep(a) ==
    \/ Load(a)
    \/ Check(a)
    \/ Take(a)
    \/ ReadLock(a)
    \/ Clone(a)

Next ==
    \/ \E a \in Attempts, k \in Kinds : Call(a, k)
    \/ \E a \in Attempts : CallerStep(a)
    \/ \E a \in Attempts : ReadValue(a)
    \/ \E a \in Attempts, v \in Values : SetValue(a, v)
    \/ \E a \in Attempts : DropGuard(a)
    \/ \E a \in Attempts : WatchdogStep(a)
    \/ Tick

Spec == Init /\ [][Next]_vars

\* Fair scheduling of the threads that are running and a clock that advances:
\* every watchdog thread and every caller past its inner acquisition keeps
\* being scheduled.  Nothing obliges a caller to begin a call, the inner lock
\* to be granted, or a guard to be dropped.
FairSpec ==
    /\ Spec
    /\ WF_vars(Tick)
    /\ \A a \in Attempts : WF_vars(WatchdogStep(a))
    /\ \A a \in Attempts :
          WF_vars(StoreFlag(a) \/ Capture(a) \/ RecWriteLock(a) \/ RecStore(a))

\* ------------------------------------------------------- the scenario
\* Thread A is attempt 1 and thread B attempt 2, both calling write() on a
\* fresh lock holding 0.  A calls at time 0, sets the value to 1 while it holds
\* the guard and drops the guard 4 s after its call; B calls within the first
\* second, after A's write() has acquired the inner lock, sets the value again
\* once it has the guard and drops it.  Threads that can run do run: the
\* clock advances only when no caller has a step it can take and no
\* watchdog is in a poll that would end its wait (its flag is set or its
\* deadline has passed).
ScnCallA == now = 0 /\ Call(1, "write")

ScnCallB == now = 0 /\ writer = 1 /\ Call(2, "write")

ScnCaller(a) ==
    \/ InnerAcquire(a)
    \/ StoreFlag(a)
    \/ Capture(a)
    \/ RecWriteLock(a)
    \/ RecStore(a)

ScnRead(a) == ReadValue(a)

ScnSetA == value = 0 /\ SetValue(1, 1)

ScnSetB == value = 1 /\ seen[2] = 1 /\ SetValue(2, 2)

ScnDropA == now = started[1] + 4 /\ value = 1 /\ DropGuard(1)

ScnDropB == value = 2 /\ DropGuard(2)

ScnWatchdog(a) ==
    \/ Load(a)
    \/ Check(a)
    \/ Take(a)

CallerIdle(a) ==
    \/ apc[a] \in {"holding", "released"}
    \/ apc[a] = "acquire" /\ ~CanAcquire(kind[a])

WatchdogIdle(a) ==
    \/ wpc[a] \in {"silent", "reported"}
    \/ wpc[a] \in {"load", "check"} /\ ~success[a] /\ ~TimedOut(a)

ScnTick ==
    /\ \A a \in {1, 2} : CallerIdle(a) /\ WatchdogIdle(a)
    /\ now < started[1] + 4
    /\ Tick

ScenarioNext ==
    \/ ScnCallA
    \/ ScnCallB
    \/ \E a \in {1, 2} : ScnCaller(a)
    \/ \E a \in {1, 2} : ScnRead(a)
    \/ ScnSetA
    \/ ScnSetB
    \/ ScnDropA
    \/ ScnDropB
    \/ \E a \in {1, 2} : ScnWatchdog(a)
    \/ ScnTick

ScenarioSpec == Init /\ [][ScenarioNext]_vars
\* ----------------------------------------------------------- contention
\* One call (attempt 1) acquires the inner lock and keeps its guard; the
\* other calls begin while it holds the lock, in a mode it excludes, so their
\* inner acquisitions do not return.  The holder's steps, the watchdogs'
\* steps and the clock interleave freely.
CntCallHolder == \E k \in Kinds : Call(1, k)

CntCallBlocked(a) ==
    /\ a # 1
    /\ 1 \in Holders
    /\ \E k \in Kinds : ~CanAcquire(k) /\ Call(a, k)

CntHolder ==
    \/ InnerAcquire(1)
    \/ StoreFlag(1)
    \/ Capture(1)
    \/ RecWriteLock(1)
    \/ RecStore(1)

CntWatchdog(a) ==
    \/ Load(a)
    \/ Check(a)
    \/ Take(a)
    \/ ReadLock(a)
    \/ Clone(a)

ContentionNext ==
    \/ CntCallHolder
    \/ \E a \in Contenders : CntCallBlocked(a)
    \/ CntHolder
    \/ \E a \in Contenders : CntWatchdog(a)
    \/ Tick

ContentionSpec == Init /\ [][ContentionNext]_vars

\* ---------------------------------------------------------- ThreadWatchdog
\* ThreadWatchdog::new(f): the callback is boxed, not called
NewCalls(n) == n

\* (mutant) drop() that does not call the callback
DropCallsNothing(n) == n

\* Drop::drop: (self.callback)()
DropCalls(n) == n + 1

TWNew(g) ==
    /\ twState[g] = "none"
    /\ twState' = [twState EXCEPT ![g] = "live"]
    /\ twCalls' = [twCalls EXCEPT ![g] = NewCalls(twCalls[g])]
    /\ UNCHANGED twExit
    /\ UNCHANGED lockVars
    /\ UNCHANGED elapsedVars

\* the scope that owns the value ends, by the closing brace, by a `return` or
\* by an unwinding panic: the value is dropped, once
TWScopeEnd(g, p) ==
    /\ twState[g] = "live"
    /\ twState' = [twState EXCEPT ![g] = "dropped"]
    /\ twExit' = [twExit EXCEPT ![g] = p]
    /\ twCalls' = [twCalls EXCEPT ![g] = DropCalls(twCalls[g])]
    /\ UNCHANGED lockVars
    /\ UNCHANGED elapsedVars

CleanupNext ==
    \/ \E g \in Guards : TWNew(g)
    \/ \E g \in Guards, p \in ExitPaths : TWScopeEnd(g, p)

CleanupSpec == Init /\ [][CleanupNext]_vars

\* ------------------------------------------------------ the elapsed figure
\* the nanosecond parts and whole seconds the two instants are drawn from
NanoSamples == {0, 1, 999, 1000, 999999, 1000000, 500000000, 999999999}
TimestampSamples == {Time(s, n) : s \in 0..MaxStampSecs, n \in NanoSamples}
ClockSamples == {Time(s, n) : s \in 0..MaxClockSecs, n \in NanoSamples}

\* Instant ordering
Before(t, u) == t.secs < u.secs \/ (t.secs = u.secs /\ t.nanos < u.nanos)

\* timestamp + Duration::from_secs(k)
AddSecs(t, k) == Time(t.secs + k, t.nanos)

\* Instant::elapsed() of `t` read at `u`: u - t, zero when `t` is later than `u`
Since(t, u) ==
    IF Before(u, t) THEN Time(0, 0)
    ELSE IF u.nanos >= t.nanos
           THEN Time(u.secs - t.secs, u.nanos - t.nanos)
           ELSE Time(u.secs - t.secs - 1, u.nanos + NanosPerSec - t.nanos)

\* Duration::as_secs, as_secs_f64 (whole seconds and the fraction, in
\* nanoseconds), as_millis, as_micros, as_nanos
DurAsSecs(d) == d.secs
DurAsSecsF64(d) == <<d.secs, d.nanos>>
DurAsMillis(d) == d.secs * 1000 + d.nanos \div 1000000
DurAsMicros(d) == d.secs * 1000000 + d.nanos \div 1000
DurAsNanos(d) == d.secs * NanosPerSec + d.nanos

Text(num, unit) == [num |-> num, unit |-> unit]

\* (mutant) the chain without its seconds branch
FormatElapsedMillis(elapsed) ==
    IF DurAsMillis(elapsed) # 0 THEN Text(<<DurAsMillis(elapsed), 0>>, "ms")
    ELSE IF DurAsMicros(elapsed) # 0 THEN Text(<<DurAsMicros(elapsed), 0>>, "us")
    ELSE Text(<<DurAsNanos(elapsed), 0>>, "ns")

\* the if/else-if chain of util.rs:211-219
FormatElapsed(elapsed) ==
    IF DurAsSecs(elapsed) # 0 THEN Text(DurAsSecsF64(elapsed), "s")
    ELSE IF DurAsMillis(elapsed) # 0 THEN Text(<<DurAsMillis(elapsed), 0>>, "ms")
    ELSE IF DurAsMicros(elapsed) # 0 THEN Text(<<DurAsMicros(elapsed), 0>>, "us")
    ELSE Text(<<DurAsNanos(elapsed), 0>>, "ns")

\* timestamp = timestamp + Duration::from_secs(3); let elapsed = timestamp.elapsed();
\* and the formatting of `elapsed`
PrintElapsed ==
    /\ printed = NotPrinted
    /\ printed' = FormatElapsed(Since(AddSecs(timestamp, Deadline), clock))
    /\ UNCHANGED <<timestamp, clock>>
    /\ UNCHANGED <<lockVars, twVars>>

\* the record was captured at `timestamp`, not after the report's `clock`
ElapsedInit ==
    /\ InitLock
    /\ InitTW
    /\ timestamp \in TimestampSamples
    /\ clock \in ClockSamples
    /\ ~Before(clock, timestamp)
    /\ printed = NotPrinted

ElapsedNext == PrintElapsed

ElapsedSpec == ElapsedInit /\ [][ElapsedNext]_vars


\* ---------------------------------------------------------------- claims
Terminated(a) == wpc[a] \in {"silent", "reported"}
\* the caller's inner.read()/inner.write() has returned
Acquired(a) == apc[a] \notin {"idle", "acquire"}
\* the reports of a watchdog: one per "POTENTIAL DEADLOCK" line
NumReports(a) == Cardinality({i \in 1..Len(out[a]) : out[a][i].tag = "POTENTIAL DEADLOCK"})
UnknownLine == Line("Locked by: UNKNOWN", NoStack, 0)

\* C1: a watchdog that timed out never obtains, as the holder, the record its
\* own attempt wrote after acquiring: what it reads is an earlier record or
\* nothing.
C1_HolderIsNotSelf ==
    \A a \in Attempts :
        \A i \in 4..Len(out[a]) : out[a][i].stack # HolderStack(a)

\* C2: an attempt whose flag was stored less than 3 s after `started` has a
\* watchdog that prints nothing.
C2_EarlyFlagSilent ==
    \A a \in Attempts : (success[a] /\ setEarly[a]) => out[a] = <<>>

C4_RecordOfLastAcquisition ==
    IF lastStored = 0
      THEN rec = None
      ELSE rec.some /\ rec.stack = HolderStack(lastStored)

\* C4 as amended: the record is empty exactly when no call has stored one yet
\* or a watchdog's take() has removed it since the last store; when not empty
\* it is the pair the last store wrote; and the record is read and written
\* only under its lock, a writer never together with a reader or another writer.
C4_RecordOrTaken ==
    /\ rec.some <=> (lastStored # 0 /\ takenBy = 0)
    /\ rec.some => rec.stack = HolderStack(lastStored) /\ rec.at <= now
    /\ takenBy # 0 => viaTake[takenBy] /\ wpc[takenBy] = "reported"
    /\ recW # NoThread => recR = {}
    /\ \A a \in Attempts :
          /\ apc[a] = "recstore" <=> recW = Caller(a)
          /\ wpc[a] = "take" <=> recW = Watchdog(a)
          /\ wpc[a] = "clone" <=> a \in recR

C4_Witness ==
    /\ lastStored # 0
    /\ takenBy # 0
    /\ ~rec.some
    /\ \E a \in Attempts : wpc[a] = "reported" /\ ~viaTake[a] /\ Len(out[a]) = 5

\* C5: as long as no call has stored a record (so, in particular, as long as
\* no call has completed an acquisition), a timeout report names the holder as
\* UNKNOWN and prints neither a holder stack nor an elapsed line.
C5_UnknownHolder ==
    lastStored = 0 =>
        \A a \in Attempts :
            /\ wpc[a] = "reported" => out[a] = Header(a) \o <<UnknownLine>>
            /\ \A i \in 1..Len(out[a]) :
                  /\ out[a][i].tag # "Locked before by"
                  /\ out[a][i].stack \in {NoStack, AttemptStack(a)}

C5_Witness ==
    /\ \A b \in Attempts : ~Acquired(b)
    /\ \E a \in Attempts : wpc[a] = "reported" /\ out[a][4] = UnknownLine

\* C6: under fair scheduling and an advancing clock every watchdog that was
\* spawned ends, silently or with its report.
C6_WatchdogTerminates ==
    \A a \in Attempts : (wpc[a] # "none") ~> Terminated(a)

\* a watchdog that ended through the fallback read while its call is blocked
C6_Witness ==
    \E a \in Attempts :
        /\ wpc[a] = "reported"
        /\ ~viaTake[a]
        /\ apc[a] = "acquire"

\* C7: a watchdog step changes neither the inner lock, nor the value, nor any
\* caller's position; a caller waiting for the inner lock leaves that wait
\* only by acquiring it; and a caller that was handed its guard owns the inner
\* lock.
C7_WatchdogOnlyObserves ==
    [][/\ (\E a \in Attempts : WatchdogStep(a)) =>
             /\ UNCHANGED <<writer, readers, value, apc>>
             /\ Waiters' = Waiters
       /\ \A a \in Attempts :
             /\ apc[a] = "acquire" => apc'[a] \in {"acquire", "setflag"}
             /\ apc[a] = "acquire" /\ apc'[a] = "setflag" => a \in Holders'
             /\ apc'[a] = "holding" => a \in Holders'
      ]_vars

\* a call that was blocked past the deadline, whose watchdog has reported, and
\* that got its guard afterwards
C7_Witness ==
    \E a \in Attempts :
        /\ wpc[a] = "reported"
        /\ blockedLong[a]
        /\ apc[a] = "holding"

\* C8: a write guard is alone; the guards are exactly the calls between the
\* inner acquisition and the drop.
C8_Exclusion ==
    /\ writer # 0 => readers = {}
    /\ writer \notin readers
    /\ \A a \in Attempts :
          a \in Holders <=> (Acquired(a) /\ apc[a] # "released")
    /\ \A a \in readers : kind[a] = "read"
    /\ writer # 0 => kind[writer] = "write"

\* two read guards at once
C8_Witness == Cardinality(readers) = 2 /\ \A a \in readers : apc[a] = "holding"

\* C10: the callback has not run while the value is alive and has run exactly
\* once when its scope has ended, whichever way the scope was left.
C10_CallbackOnce ==
    \A g \in Guards :
        /\ twState[g] \in {"none", "live"} => twCalls[g] = 0
        /\ twState[g] = "dropped" => twCalls[g] = 1 /\ twExit[g] \in ExitPaths

C10_Witness ==
    \E g, h, i \in Guards :
        /\ twState[g] = "dropped" /\ twExit[g] = "early_return" /\ twCalls[g] = 1
        /\ twState[h] = "dropped" /\ twExit[h] = "unwind" /\ twCalls[h] = 1
        /\ twState[i] = "dropped" /\ twExit[i] = "normal" /\ twCalls[i] = 1


C11_RoundTrip ==
    /\ [](\A a \in Attempts :
            /\ seen[a] # NoValue => apc[a] = "holding" /\ a \in Holders
            /\ (kind[a] = "read" /\ seen[a] # NoValue) => seen[a] = value
            /\ writer # 0 => \A b \in Attempts \ {writer} : seen[b] = NoValue)
    /\ [][/\ value' # value =>
                /\ writer # 0 /\ writer' = writer
                /\ apc[writer] = "holding"
                /\ readers = {}
          /\ \A a \in Attempts :
                (seen'[a] # seen[a] /\ seen'[a] # NoValue) =>
                    /\ seen'[a] = value
                    /\ writer \in {0, a}
         ]_vars

\* a read guard obtained after the writer's release observes what it stored
C11_Witness ==
    \E w, r \in Attempts :
        /\ kind[w] = "write" /\ apc[w] = "released"
        /\ kind[r] = "read" /\ apc[r] = "holding"
        /\ value = 1
        /\ seen[r] = 1

\* C12: the record, and every pair on its way into the record, holds a stack
\* captured by backtrace() of a call whose inner acquisition had returned, at
\* a time not before that call began; it never holds a stack of an attempt
\* that is still waiting for the inner lock, nor any attempt-start stack.
C12_RecordAfterAcquisition ==
    /\ rec.some =>
          \E b \in Attempts :
              /\ rec.stack = HolderStack(b)
              /\ apc[b] \in {"holding", "released"}
              /\ started[b] <= rec.at
    /\ \A a \in Attempts :
          /\ rec.stack # AttemptStack(a)
          /\ cap[a].some =>
                /\ cap[a].stack = HolderStack(a)
                /\ apc[a] \in {"reclock", "recstore"}
                /\ a \in Holders
                /\ started[a] <= cap[a].at
          /\ ~Acquired(a) =>
                /\ cap[a] = None
                /\ rec.stack # HolderStack(a)

\* the record holds the holder's stack while another attempt is blocked
C12_Witness ==
    \E a, b \in Attempts :
        /\ apc[a] = "acquire" /\ ~CanAcquire(kind[a])
        /\ rec = Some(HolderStack(b), rec.at)
        /\ b \in Holders

\* the position of a call in read()/write(), in program order
Rank(p) ==
    CASE p = "idle" -> 0
      [] p = "acquire" -> 1
      [] p = "setflag" -> 2
      [] p = "capture" -> 3
      [] p = "reclock" -> 4
      [] p = "recstore" -> 5
      [] p = "holding" -> 6
      [] p = "released" -> 7

\* C13: a call goes through its events in program order: the watchdog is
\* spawned when the call begins, then the inner acquisition returns, then the
\* flag is stored, then the record is overwritten, then the guard is returned.
\* So whenever the record holds the pair an attempt stored, that attempt's flag
\* is already true: a load of the flag made by a watchdog at the moment it
\* observes its own attempt's record returns true.
C13_EventOrder ==
    /\ [](\A a \in Attempts :
            /\ wpc[a] = "none" <=> apc[a] = "idle"
            /\ a \in Holders => Rank(apc[a]) >= 2
            /\ success[a] <=> Rank(apc[a]) >= 3
            /\ cap[a].some => success[a]
            /\ (lastStored = a \/ rec.stack = HolderStack(a)) =>
                  success[a] /\ Rank(apc[a]) >= 6)
    /\ [][/\ \A a \in Attempts :
                /\ apc'[a] # apc[a] => Rank(apc'[a]) = Rank(apc[a]) + 1
                /\ wpc[a] = "none" /\ wpc'[a] # "none" =>
                      apc[a] = "idle" /\ apc'[a] = "acquire"
                /\ success'[a] # success[a] =>
                      apc[a] = "setflag" /\ apc'[a] = "capture" /\ a \in Holders
          /\ (rec' # rec /\ rec'.some) =>
                \E a \in Attempts :
                    /\ apc[a] = "recstore" /\ apc'[a] = "holding"
                    /\ rec'.stack = HolderStack(a)
                    /\ success[a]
         ]_vars

\* a timed-out watchdog about to take the record its own attempt stored
C13_Witness ==
    \E a \in Attempts :
        /\ wpc[a] = "take"
        /\ rec.some /\ rec.stack = HolderStack(a)
        /\ success[a]
        /\ apc[a] = "holding"

\* the watchdog holds the record's lock, for writing or for reading
HoldsRecord(a) == recW = Watchdog(a) \/ a \in recR

\* C14: a watchdog that has timed out takes the record's lock for writing
\* exactly when try_write() finds it free, and otherwise waits to read it.  On
\* the write path it empties the record and reports the value it removed; on
\* the read path it reports a copy and the record is unchanged.  It does not
\* hold the record's lock when it prints the header, and has released it when
\* it prints the holder lines.
C14_TakeOrCopy ==
    [][\A a \in Attempts :
          /\ (wpc[a] = "check" /\ wpc'[a] \in {"take", "rdlock"}) =>
                /\ ~HoldsRecord(a)
                /\ out'[a] = out[a] \o Header(a)
                /\ wpc'[a] = "take" <=> RecCanWrite
                /\ wpc'[a] = "take" => recW' = Watchdog(a)
                /\ rec' = rec
          /\ (wpc[a] = "take" /\ wpc'[a] # "take") =>
                /\ wpc'[a] = "reported"
                /\ rec' = None
                /\ out'[a] = out[a] \o HolderLines(rec)
                /\ ~HoldsRecord(a)'
                /\ recW' = NoThread
          /\ (wpc[a] = "rdlock" /\ wpc'[a] # "rdlock") =>
                /\ wpc'[a] = "clone"
                /\ recW = NoThread
                /\ UNCHANGED <<rec, out>>
          /\ (wpc[a] = "clone" /\ wpc'[a] # "clone") =>
                /\ wpc'[a] = "reported"
                /\ rec' = rec
                /\ out'[a] = out[a] \o HolderLines(rec)
                /\ ~HoldsRecord(a)'
          /\ out'[a] # out[a] => ~HoldsRecord(a)'  \/ wpc[a] = "check"
      ]_vars

\* one watchdog has reported through take() and another through the copy
C14_Witness ==
    \E a, b \in Attempts :
        /\ wpc[a] = "reported" /\ viaTake[a]
        /\ wpc[b] = "reported" /\ ~viaTake[b]
        /\ Len(out[b]) = 5
        /\ rec.some

\* the state of a watchdog in the spec's state machine: Waiting while it is in
\* its polling loop, ReportedTimeout from the poll that found the deadline
\* passed (the report begins in that poll), SucceededSilently when a poll
\* loaded the flag as true
WatchdogState(a) ==
    CASE wpc[a] = "none" -> "NotSpawned"
      [] wpc[a] \in {"load", "check"} -> "Waiting"
      [] wpc[a] = "silent" -> "SucceededSilently"
      [] wpc[a] \in {"take", "rdlock", "clone", "reported"} -> "ReportedTimeout"

\* C15: a watchdog starts in Waiting and leaves it at most once, for
\* SucceededSilently when a poll loads the flag as true, or for ReportedTimeout
\* when a poll has loaded the flag as false and finds the deadline passed; it
\* never leaves either of these, never polls the flag again, prints at most
\* one report, and once its thread has ended its output and the record are
\* not touched by it again.
C15_StateMachine ==
    /\ [](\A a \in Attempts :
            /\ NumReports(a) <= 1
            /\ WatchdogState(a) = "ReportedTimeout" <=> NumReports(a) = 1
            /\ WatchdogState(a) \in {"Waiting", "SucceededSilently", "NotSpawned"} =>
                  out[a] = <<>>)
    /\ [][\A a \in Attempts :
            /\ WatchdogState(a)' # WatchdogState(a) =>
                  \/ /\ WatchdogState(a) = "NotSpawned"
                     /\ WatchdogState(a)' = "Waiting" /\ wpc'[a] = "load"
                  \/ /\ wpc[a] = "load" /\ success[a]
                     /\ WatchdogState(a)' = "SucceededSilently"
                  \/ /\ wpc[a] = "check" /\ TimedOut(a)
                     /\ WatchdogState(a)' = "ReportedTimeout"
            /\ (wpc[a] = "load" /\ wpc'[a] = "check") => ~success[a]
            /\ Terminated(a) =>
                  /\ wpc'[a] = wpc[a]
                  /\ out'[a] = out[a]
                  /\ viaTake'[a] = viaTake[a]
                  /\ (rec' # rec => \E b \in Attempts :
                                        \/ apc[b] = "recstore"
                                        \/ b # a /\ wpc[b] = "take")
         ]_vars

\* both terminal states are reached, one watchdog in each
C15_Witness ==
    \E a, b \in Attempts :
        /\ WatchdogState(a) = "SucceededSilently"
        /\ WatchdogState(b) = "ReportedTimeout" /\ wpc[b] = "reported"
        /\ apc[b] = "acquire"

\* C16: under fair scheduling a call whose inner acquisition has returned
\* goes on to return its guard: the flag store and the capture do not wait,
\* and the wait for the record's lock ends because each of its holders
\* releases it within its next step.
C16_CallReturns ==
    \A a \in Attempts :
        (apc[a] \in {"setflag", "capture", "reclock", "recstore"}) ~> (apc[a] = "holding")

\* a call waiting in backtrace() for the record's lock, held by a watchdog
C16_Witness ==
    \E a, b \in Attempts :
        /\ apc[a] = "reclock"
        /\ recW = Watchdog(b)
        /\ ~RecCanWrite

\* C17: every attempt has its own flag, false from the call's beginning until
\* the call stores true after its inner acquisition has returned; a flag
\* changes only in that store, only from false to true, and the store changes
\* no other attempt's flag; a watchdog's poll depends on its own attempt's
\* flag alone: it ends silently exactly when that flag is true.
C17_FlagPerAttempt ==
    /\ [](\A a \in Attempts :
            /\ apc[a] \in {"idle", "acquire", "setflag"} => ~success[a]
            /\ success[a] => Acquired(a))
    /\ [][\A a \in Attempts :
            /\ success[a] => success'[a]
            /\ success'[a] # success[a] =>
                  /\ ~success[a] /\ success'[a]
                  /\ apc[a] = "setflag" /\ apc'[a] = "capture"
                  /\ a \in Holders
                  /\ \A b \in Attempts \ {a} : success'[b] = success[b]
            /\ (wpc[a] = "load" /\ wpc'[a] # "load") =>
                  /\ wpc'[a] = (IF success[a] THEN "silent" ELSE "check")
                  /\ success' = success
         ]_vars

\* one attempt's flag is true and its watchdog has ended silently while the
\* other attempt is blocked, its flag false and its watchdog polling
C17_Witness ==
    \E a, b \in Attempts :
        /\ success[a] /\ wpc[a] = "silent"
        /\ ~success[b] /\ apc[b] = "acquire" /\ wpc[b] = "check"

\* the units of the report, coarsest first, and how many of each make a second
Units == <<"s", "ms", "us", "ns">>
PerSec(u) ==
    CASE u = "s" -> 1
      [] u = "ms" -> 1000
      [] u = "us" -> 1000000
      [] u = "ns" -> NanosPerSec
\* a duration counted in whole units, and whether that count is not zero
WholeIn(d, u) == d.secs * PerSec(u) + d.nanos \div (NanosPerSec \div PerSec(u))
NonZeroIn(d, u) == d.secs # 0 \/ d.nanos \div (NanosPerSec \div PerSec(u)) # 0
\* t + d, carrying the nanoseconds
Plus(t, d) ==
    IF t.nanos + d.nanos >= NanosPerSec
      THEN Time(t.secs + d.secs + 1, t.nanos + d.nanos - NanosPerSec)
      ELSE Time(t.secs + d.secs, t.nanos + d.nanos)
\* the durations a report can show: differences of the sampled instants
Durations ==
    {Time(s, n) : s \in 0..MaxClockSecs,
                  n \in {(x - y + NanosPerSec) % NanosPerSec : x, y \in NanoSamples}}
\* the time from (captured at + 3 s) to the report, 0 when that is in the future
FromDeadline ==
    IF Before(clock, AddSecs(timestamp, Deadline))
      THEN Time(0, 0)
      ELSE CHOOSE d \in Durations : Plus(AddSecs(timestamp, Deadline), d) = clock
\* the coarsest unit in which a duration is not zero, nanoseconds if there is none
Coarsest(d) ==
    IF \E i \in 1..4 : NonZeroIn(d, Units[i])
      THEN Units[CHOOSE i \in 1..4 :
                    /\ NonZeroIn(d, Units[i])
                    /\ \A j \in 1..(i - 1) : ~NonZeroIn(d, Units[j])]
      ELSE "ns"

\* C18: the figure printed is the time from (captured at + 3 s) to the
\* report, 0 when that instant is still in the future, given in the coarsest
\* unit in which it is not zero (as seconds with their fraction, or as whole
\* milli-, micro- or nanoseconds), and as 0 ns when it is zero.
C18_ElapsedFigure ==
    printed # NotPrinted =>
        /\ printed.unit = Coarsest(FromDeadline)
        /\ printed.num = IF printed.unit = "s"
                            THEN <<FromDeadline.secs, FromDeadline.nanos>>
                            ELSE <<WholeIn(FromDeadline, printed.unit), 0>>
        /\ (printed.num = <<0, 0>>) <=> (FromDeadline = Time(0, 0))
        /\ Before(clock, AddSecs(timestamp, Deadline)) => printed = Text(<<0, 0>>, "ns")

\* a record captured less than 3 s before the report: 0 ns is printed
C18_Witness ==
    /\ printed = Text(<<0, 0>>, "ns")
    /\ Before(timestamp, clock)
    /\ Before(clock, AddSecs(timestamp, Deadline))

\* the watchdogs that removed, and reported as holder, the pair stored by b
RemovedBy(b) ==
    {a \in Contenders :
        /\ viaTake[a]
        /\ \E i \in 4..Len(out[a]) : out[a][i].stack = HolderStack(b)}

\* C19: the pair stored by one acquisition is removed, and reported through
\* the removing path, by at most one watchdog; after a removal the record
\* stays empty until the next store, and a watchdog that reads it in between,
\* by either path, reports the holder as UNKNOWN.
C19_RemovedOnce ==
    /\ [](/\ \A b \in Contenders : Cardinality(RemovedBy(b)) <= 1
          /\ takenBy # 0 => rec = None /\ viaTake[takenBy])
    /\ [][\A a \in Contenders :
            (wpc[a] \in {"take", "clone"} /\ wpc'[a] = "reported" /\ takenBy # 0) =>
                /\ out'[a] = Header(a) \o <<UnknownLine>>
                /\ rec' = None
         ]_vars

\* two calls blocked behind a holder whose record was stored: both watchdogs
\* have timed out, one removed and reported the holder's pair, the other
\* reported UNKNOWN, while the holder still has its guard
C19_Witness ==
    \E a, b \in Contenders \ {1} :
        /\ a # b
        /\ apc[1] = "holding" /\ 1 \in Holders /\ lastStored = 1
        /\ apc[a] = "acquire" /\ apc[b] = "acquire"
        /\ wpc[a] = "reported" /\ RemovedBy(1) = {a}
        /\ wpc[b] = "reported" /\ out[b] = Header(b) \o <<UnknownLine>>
        /\ out[1] = <<>>

\* a thread of the instrumentation is waiting for the record's lock
WaitsForRecord ==
    \E a \in Attempts :
        \/ apc[a] = "reclock" /\ ~RecCanWrite
        \/ wpc[a] = "rdlock" /\ ~RecCanRead
\* no step of read()/write() past the call's beginning, and no watchdog step,
\* can be taken
AllBlocked ==
    \A a \in Attempts : ~ENABLED CallerStep(a) /\ ~ENABLED WatchdogStep(a)

\* C20: the record's lock is held only by a caller inside backtrace(), which
\* already owns the inner lock, or by a watchdog inside its take or copy, and
\* each of them can always take its next step, which releases it; a caller
\* waiting for the inner lock holds nothing of the record; a watchdog never
\* touches the inner lock.  So whenever no thread can move, the record's lock
\* is free, every watchdog has ended, and every call that has not returned
\* waits for the inner lock.
C20_NoLockOrderCycle ==
    /\ [](/\ \A a \in Attempts :
                /\ recW = Caller(a) =>
                      apc[a] = "recstore" /\ a \in Holders /\ ENABLED RecStore(a)
                /\ recW = Watchdog(a) => wpc[a] = "take" /\ ENABLED Take(a)
                /\ a \in recR => wpc[a] = "clone" /\ ENABLED Clone(a)
                /\ apc[a] = "acquire" => recW # Caller(a)
                /\ apc[a] \in {"reclock", "recstore"} => a \in Holders
          /\ recW \in {NoThread} \cup {Caller(a) : a \in Attempts}
                                 \cup {Watchdog(a) : a \in Attempts}
          /\ WaitsForRecord =>
                \E b \in Attempts :
                    ENABLED RecStore(b) \/ ENABLED Take(b) \/ ENABLED Clone(b)
          /\ AllBlocked =>
                /\ recW = NoThread /\ recR = {}
                /\ \A a \in Attempts :
                      /\ wpc[a] \in {"none", "silent", "reported"}
                      /\ apc[a] \in {"idle", "acquire", "holding", "released"}
                      /\ apc[a] = "acquire" => ~CanAcquire(kind[a]))
    /\ [][/\ (\E a \in Attempts : WatchdogStep(a)) => UNCHANGED <<writer, readers>>
          /\ \A a \in Attempts :
                (recW' = Caller(a) /\ recW # Caller(a)) => a \in Holders
         ]_vars

\* a caller holds the record's lock inside backtrace() while another call
\* waits for the inner lock and that call's watchdog waits to read the record
C20_Witness ==
    \E a, b \in Attempts :
        /\ recW = Caller(a) /\ a \in Holders
        /\ apc[b] = "acquire" /\ ~CanAcquire(kind[b])
        /\ wpc[b] = "rdlock"

====
